---- MODULE Spec2Model ----
(***************************************************************************)
(* Fitness Training Manager (src/js/app.js, first snapshot, lines 1-597):  *)
(* the in-memory state document, the localStorage slot 'ftm-state', the    *)
(* rendered controls that close over state (delete buttons, client         *)
(* selectors), the migration from positional client references to ids,    *)
(* and the event handlers that mutate, persist, export and restore.       *)
(***************************************************************************)
EXTENDS Integers, Sequences, FiniteSets, TLC

VARIABLES
  state,      \* the global `state` object (app.js:11)
  storage,    \* the localStorage slot 'ftm-state'
  dom,        \* rendered controls that capture state: lists and selectors
  gen,        \* environment: crypto available, clock, uuids drawn, failed storage writes
  phase,      \* "boot" before DOMContentLoaded, "run" once handlers are attached, "dead" if startup threw before
  pending,    \* FileReader reads started by the restore button and not yet delivered
  last,       \* what the last handler did (observation only)
  steps       \* number of events delivered to the page so far

vars == <<state, storage, dom, gen, phase, pending, last, steps>>

----------------------------------------------------------------------------
(* Bounds of the model *)

MaxSteps  == 4   \* events (page load, clicks, submits, file reads) delivered in one run
MaxTime   == 1   \* Date.now() takes the values 0..MaxTime
RandRange == 2   \* Math.floor(Math.random() * 10000) takes the values 0..RandRange-1
MaxFailed == 1   \* localStorage.setItem fails (quota) at most this many times in one run
MaxRawClients == 2   \* clients of a raw document handed to migrateState alone
MaxRawRecords == 2   \* progress records of such a document
MaxLegacySteps == 6  \* events delivered to the positional variant before the upgrade
MaxInputLen == 5     \* characters typed into the exercises field of the program form

----------------------------------------------------------------------------
(* Values *)

\* An id is a triple <<prefix, a, b>>; NoId stands for an absent or empty
\* (falsy) id.
NoId == <<"", 0, 0>>

Fields == {"clients", "programs", "exercises", "progress", "events", "settings"}

NoSettings == [theme |-> "", language |-> ""]

\* app.js:11-21
InitialState ==
  [has       |-> Fields,
   clients   |-> <<>>,
   programs  |-> <<>>,
   exercises |-> <<>>,
   progress  |-> <<>>,
   events    |-> <<>>,
   settings  |-> [theme |-> "light", language |-> "en"]]

\* The value of a parsed `{}`: every property is undefined.
EmptyObject ==
  [has       |-> {},
   clients   |-> <<>>,
   programs  |-> <<>>,
   exercises |-> <<>>,
   progress  |-> <<>>,
   events    |-> <<>>,
   settings  |-> NoSettings]

Range(s) == {s[i] : i \in 1..Len(s)}

RECURSIVE Flatten(_)
Flatten(ss) == IF ss = <<>> THEN <<>> ELSE Head(ss) \o Flatten(Tail(ss))

\* Array.prototype.filter
Filter(s, Keep(_)) == SelectSeq(s, Keep)

\* Array.prototype.splice(idx, 1) with a 0-based idx; out of range removes nothing
Splice(s, idx) ==
  IF idx + 1 \in 1..Len(s)
    THEN SubSeq(s, 1, idx) \o SubSeq(s, idx + 2, Len(s))
    ELSE s

----------------------------------------------------------------------------
(* JSON.stringify / JSON.parse of a state document: the text carries exactly
   the properties that are defined; parsing a text gives back an object in
   which the others are undefined. *)

stringify(st) == [kind |-> "json", text |-> [f \in st.has |-> st[f]]]

parse(file) ==
  LET t == file.text
      get(f, dflt) == IF f \in DOMAIN t THEN t[f] ELSE dflt
  IN [has       |-> DOMAIN t,
      clients   |-> get("clients", <<>>),
      programs  |-> get("programs", <<>>),
      exercises |-> get("exercises", <<>>),
      progress  |-> get("progress", <<>>),
      events    |-> get("events", <<>>),
      settings  |-> get("settings", NoSettings)]

Absent  == [kind |-> "absent",  text |-> [f \in {} |-> <<>>]]
Garbage == [kind |-> "garbage", text |-> [f \in {} |-> <<>>]]

----------------------------------------------------------------------------
(* generateId, app.js:107-112 *)

generateId(prefix, crypto, uuid, now, rnd) ==
  IF crypto THEN <<"uuid", uuid, 0>> ELSE <<prefix, now, rnd>>

\* The environment after n calls of generateId that read the clock at `now`
Drawn(g, n, now) ==
  IF n = 0 THEN g
  ELSE IF g.crypto THEN [g EXCEPT !.uuid = @ + n]
  ELSE [g EXCEPT !.now = now]

\* Date.now() never goes back; only the fallback reads it
Times == IF gen.crypto THEN {gen.now} ELSE gen.now..MaxTime

\* what the calls of generateId in one pass over `clients` can read: the
\* clock, and one random number for each client that needs an id
TimesFor(clients) ==
  IF \A i \in 1..Len(clients) : clients[i].id # NoId THEN {gen.now} ELSE Times

RandChoices(clients) ==
  [{i \in 1..Len(clients) : clients[i].id = NoId} -> 0..(RandRange - 1)]

----------------------------------------------------------------------------
(* The machine a handler runs on: the parts of the program a handler can
   change, and whether an exception is propagating. *)

Machine ==
  [state   |-> state,
   storage |-> storage,
   dom     |-> dom,
   gen     |-> gen,
   saved   |-> "none",
   threw   |-> FALSE]

Throw(m) == [m EXCEPT !.threw = TRUE]

Has(m, f) == f \in m.state.has

----------------------------------------------------------------------------
(* migrateState, app.js:114-145 *)

\* number of clients before position i that need an id
Lacking(clients, i) == Cardinality({j \in 1..(i - 1) : clients[j].id = NoId})

\* (variant: the test of line 117 left out)
assignIdAlways(client, id) == [client EXCEPT !.id = id]

\* app.js:117-119
assignId(client, id) ==
  IF client.id = NoId THEN [client EXCEPT !.id = id] ELSE client

\* app.js:116-122
migrateClients(clients, crypto, uuid, now, rnd) ==
  [i \in 1..Len(clients) |->
     assignId(clients[i],
              generateId("client", crypto, uuid + Lacking(clients, i), now,
                         IF i \in DOMAIN rnd THEN rnd[i] ELSE 0))]

\* (variant: a clientIndex is resolved also when the record has a clientId)
resolveIndexFirst(record, clients) ==
  IF record.hasIndex
    THEN IF record.clientIndex \in 0..(Len(clients) - 1)
           THEN <<[record EXCEPT !.clientId = clients[record.clientIndex + 1].id]>>
           ELSE <<>>
    ELSE <<record>>

\* (variant: a record that names no client at all is mapped to null)
resolveDropsUnreferenced(record, clients) ==
  IF record.clientId = NoId
    THEN IF record.hasIndex /\ record.clientIndex \in 0..(Len(clients) - 1)
           THEN <<[record EXCEPT !.clientId = clients[record.clientIndex + 1].id]>>
           ELSE <<>>
    ELSE <<record>>

\* (variant: clientIndex taken as counting from 1)
resolveOneBased(record, clients) ==
  IF record.clientId = NoId /\ record.hasIndex
    THEN IF record.clientIndex \in 1..Len(clients)
           THEN <<[record EXCEPT !.clientId = clients[record.clientIndex].id]>>
           ELSE <<>>
    ELSE <<record>>

\* (variant: a reference that resolves to nothing is kept instead of mapped to null)
resolveKeepsDangling(record, clients) ==
  IF record.clientId = NoId /\ record.hasIndex
       /\ record.clientIndex \in 0..(Len(clients) - 1)
    THEN <<[record EXCEPT !.clientId = clients[record.clientIndex + 1].id]>>
    ELSE <<record>>

\* app.js:125-131: the mapped value, <<>> standing for null
resolve(record, clients) ==
  IF record.clientId = NoId /\ record.hasIndex
    THEN IF record.clientIndex \in 0..(Len(clients) - 1)
           THEN <<[record EXCEPT !.clientId = clients[record.clientIndex + 1].id]>>
           ELSE <<>>
    ELSE <<record>>

\* app.js:133
stripIndex(record) == [record EXCEPT !.hasIndex = FALSE, !.clientIndex = 0]

\* app.js:124-133 and 135-144
migrateRecords(records, clients) ==
  LET kept == Flatten([i \in 1..Len(records) |-> resolve(records[i], clients)])
  IN [i \in 1..Len(kept) |-> stripIndex(kept[i])]

migrateState(m, now, rnd) ==
  IF m.threw THEN m
  ELSE IF ~Has(m, "clients") THEN Throw(m)
  ELSE
    LET cs == migrateClients(m.state.clients, m.gen.crypto, m.gen.uuid, now, rnd)
        m1 == [m EXCEPT !.state.clients = cs,
                        !.gen = Drawn(@, Lacking(m.state.clients, Len(m.state.clients) + 1), now)]
    IN IF ~Has(m1, "progress") THEN Throw(m1)
       ELSE
         LET m2 == [m1 EXCEPT !.state.progress = migrateRecords(m.state.progress, cs)]
         IN IF ~Has(m2, "events") THEN Throw(m2)
            ELSE [m2 EXCEPT !.state.events = migrateRecords(m.state.events, cs)]

----------------------------------------------------------------------------
(* saveState, app.js:164-170.  `ok` is whether localStorage.setItem succeeds;
   a failure is caught and logged. *)

\* (variant: the document is written under another key)
saveStateElsewhere(m, ok) ==
  IF m.threw THEN m
  ELSE [m EXCEPT !.saved      = IF ok THEN "ok" ELSE "failed",
                 !.gen.failed = IF ok THEN @ ELSE @ + 1]

\* (variant: the failure of setItem is not caught)
saveStateUncaught(m, ok) ==
  IF m.threw THEN m
  ELSE [m EXCEPT !.storage    = IF ok THEN stringify(m.state) ELSE @,
                 !.saved      = IF ok THEN "ok" ELSE "failed",
                 !.gen.failed = IF ok THEN @ ELSE @ + 1,
                 !.threw      = ~ok]

saveState(m, ok) ==
  IF m.threw THEN m
  ELSE [m EXCEPT !.storage    = IF ok THEN stringify(m.state) ELSE @,
                 !.saved      = IF ok THEN "ok" ELSE "failed",
                 !.gen.failed = IF ok THEN @ ELSE @ + 1]

----------------------------------------------------------------------------
(* Theme, language and dictionary *)

\* getDict, app.js:103-105: reads state.settings.language
getDict(m) == IF m.threw \/ Has(m, "settings") THEN m ELSE Throw(m)

\* applyTheme(state.settings.theme), app.js:159, 558: the argument reads state.settings
applyTheme(m) == IF m.threw \/ Has(m, "settings") THEN m ELSE Throw(m)

\* applyLanguage, app.js:221-302: its first statement writes state.settings.language
applyLanguage(m, lang) ==
  IF m.threw THEN m
  ELSE IF ~Has(m, "settings") THEN Throw(m)
  ELSE [m EXCEPT !.state.settings.language = lang]

----------------------------------------------------------------------------
(* Rendering: each function first empties its container, so an exception
   half way leaves the container empty. *)

EmptyDom ==
  [clientsList    |-> <<>>,   \* ids captured by the client delete buttons
   programsList   |-> <<>>,   \* the programs shown (the button of entry k holds idx k-1)
   exercisesList  |-> <<>>,
   calendarEvents |-> <<>>,
   progressSelect |-> <<>>,   \* values of the client options, the default '' option left out
   calendarSelect |-> <<>>]

\* updateClientSelect, app.js:314-328
updateClientSelect(m, selectId) ==
  IF m.threw THEN m
  ELSE
    LET cleared == [m EXCEPT !.dom[selectId] = <<>>]
    IN IF ~Has(m, "settings") \/ ~Has(m, "clients") THEN Throw(cleared)
       ELSE [m EXCEPT !.dom[selectId] =
                        [i \in 1..Len(m.state.clients) |-> m.state.clients[i].id]]

\* renderClients, app.js:331-361
renderClients(m) ==
  IF m.threw THEN m
  ELSE
    LET cleared == [m EXCEPT !.dom.clientsList = <<>>]
    IN IF ~Has(m, "clients") THEN Throw(cleared)
       ELSE IF Len(m.state.clients) = 0 THEN getDict(cleared)
       ELSE [m EXCEPT !.dom.clientsList =
                        [i \in 1..Len(m.state.clients) |-> m.state.clients[i].id]]

\* renderPrograms, app.js:363-385
renderPrograms(m) ==
  IF m.threw THEN m
  ELSE
    LET cleared == [m EXCEPT !.dom.programsList = <<>>]
    IN IF ~Has(m, "programs") THEN Throw(cleared)
       ELSE IF Len(m.state.programs) = 0 THEN getDict(cleared)
       ELSE [m EXCEPT !.dom.programsList = m.state.programs]

\* renderExercises, app.js:387-409
renderExercises(m) ==
  IF m.threw THEN m
  ELSE
    LET cleared == [m EXCEPT !.dom.exercisesList = <<>>]
    IN IF ~Has(m, "exercises") THEN Throw(cleared)
       ELSE IF Len(m.state.exercises) = 0 THEN getDict(cleared)
       ELSE [m EXCEPT !.dom.exercisesList = m.state.exercises]

\* renderProgressRecords, app.js:411-441, at the places where the selector
\* has just been rebuilt or the form reset, so that its value is '': the
\* table is replaced by the "no records" text.
renderProgressRecords(m) == getDict(m)

\* renderEvents, app.js:443-466
renderEvents(m) ==
  IF m.threw THEN m
  ELSE
    LET cleared == [m EXCEPT !.dom.calendarEvents = <<>>]
    IN IF ~Has(m, "events") THEN Throw(cleared)
       ELSE IF Len(m.state.events) = 0 THEN getDict(cleared)
       ELSE IF ~Has(m, "clients") THEN Throw(cleared)
       ELSE [m EXCEPT !.dom.calendarEvents = m.state.events]

\* renderAll, app.js:570-581
renderAll(m) ==
  LET m1 == renderClients(m)
      m2 == renderPrograms(m1)
      m3 == renderExercises(m2)
      m4 == updateClientSelect(m3, "progressSelect")
      m5 == updateClientSelect(m4, "calendarSelect")
      m6 == renderProgressRecords(m5)
      m7 == renderEvents(m6)
  IN applyTheme(m7)

\* showSection, app.js:188-203
showSection(m, sectionId) ==
  IF sectionId = "progress"
    THEN renderProgressRecords(updateClientSelect(m, "progressSelect"))
  ELSE IF sectionId = "calendar"
    THEN renderEvents(updateClientSelect(m, "calendarSelect"))
  ELSE m

----------------------------------------------------------------------------
(* Text input: a string is a sequence of characters *)

IsSpace(c) == c = " "

RECURSIVE trimStart(_)
trimStart(s) == IF s # <<>> /\ IsSpace(Head(s)) THEN trimStart(Tail(s)) ELSE s

RECURSIVE trimEnd(_)
trimEnd(s) ==
  IF s # <<>> /\ IsSpace(s[Len(s)]) THEN trimEnd(SubSeq(s, 1, Len(s) - 1)) ELSE s

\* (variant: the value is taken as typed)
untrimmed(s) == s

\* String.prototype.trim
trim(s) == trimEnd(trimStart(s))

\* String.prototype.split(','): always at least one piece
RECURSIVE split(_)
split(s) ==
  IF \A i \in 1..Len(s) : s[i] # ","
    THEN <<s>>
    ELSE LET k == CHOOSE i \in 1..Len(s) : s[i] = "," /\ \A j \in 1..(i - 1) : s[j] # ","
         IN <<SubSeq(s, 1, k - 1)>> \o split(SubSeq(s, k + 1, Len(s)))

\* (variant: the empty elements are kept)
parseKeepsEmpty(value) ==
  LET pieces == split(value)
  IN [i \in 1..Len(pieces) |-> trim(pieces[i])]

\* app.js:490: value.split(',').map(s => s.trim()).filter(Boolean)
parseExercises(value) ==
  LET pieces  == split(value)
      trimmed == [i \in 1..Len(pieces) |-> trim(pieces[i])]
  IN SelectSeq(trimmed, LAMBDA e : e # <<>>)

NameInputs == {<<>>, <<" ", " ">>, <<" ", "A", " ">>}

ExerciseInputs == {<<"r", ",", ",", "s", " ">>}

DateInputs == {"", "2024-01-01"}

ThemeOptions == {"light", "dark"}

LanguageOptions == {"en", "fa"}

----------------------------------------------------------------------------
(* Documents that can be found in the slot at startup or picked for restore:
   written by this program, by its earlier positional variant, or damaged. *)

DocIdA == <<"ext", 1, 0>>
DocIdB == <<"ext", 2, 0>>

Client(id) == [id |-> id, name |-> <<"A">>]

Rec(clientId, hasIndex, clientIndex) ==
  [clientId |-> clientId, hasIndex |-> hasIndex, clientIndex |-> clientIndex,
   date |-> "2024-01-01"]

FileDoc(shape, clients, progress, events) ==
  [has       |-> shape,
   clients   |-> IF "clients" \in shape THEN clients ELSE <<>>,
   programs  |-> <<>>,
   exercises |-> <<>>,
   progress  |-> IF "progress" \in shape THEN progress ELSE <<>>,
   events    |-> IF "events" \in shape THEN events ELSE <<>>,
   settings  |-> IF "settings" \in shape THEN InitialState.settings ELSE NoSettings]

\* written by this program: ids everywhere
CurrentDoc ==
  [FileDoc(Fields, <<Client(DocIdA)>>, <<Rec(DocIdA, FALSE, 0)>>, <<Rec(DocIdA, FALSE, 0)>>)
     EXCEPT !.programs  = <<[name |-> <<"P">>, exercises |-> <<<<"s">>, <<"r">>, <<"p">>>>],
                            [name |-> <<"Q">>, exercises |-> <<>>]>>,
            !.exercises = <<[name |-> <<"s">>, muscle |-> <<"l">>]>>]

\* written by the positional variant (app.js:997, 1037, 1051): no ids, clientIndex references
\* (the event refers to a client that was deleted since)
LegacyDoc == FileDoc(Fields, <<Client(NoId), Client(NoId)>>, <<Rec(NoId, TRUE, 1)>>, <<Rec(NoId, TRUE, 2)>>)

\* records that name no client of the document
OrphanDoc == FileDoc(Fields, <<Client(DocIdA)>>, <<Rec(DocIdB, FALSE, 0)>>, <<Rec(NoId, FALSE, 0)>>)

\* two clients carrying the same id
DuplicateDoc == FileDoc(Fields, <<Client(DocIdA), Client(DocIdA)>>, <<>>, <<>>)

\* documents with a property missing
NoProgressDoc == FileDoc(Fields \ {"progress"}, <<Client(DocIdA)>>, <<>>, <<Rec(DocIdA, FALSE, 0)>>)
NoSettingsDoc == FileDoc(Fields \ {"settings"}, <<Client(DocIdB)>>, <<Rec(DocIdB, FALSE, 0)>>, <<>>)
NoProgramsDoc == FileDoc(Fields \ {"programs"}, <<>>, <<>>, <<>>)

\* a document without settings whose records name a client of another store
StrayDoc == FileDoc(Fields \ {"settings"}, <<Client(DocIdB)>>, <<Rec(DocIdA, FALSE, 0)>>,
                    <<Rec(DocIdA, FALSE, 0)>>)

Files ==
  {Garbage} \cup
  {stringify(d) : d \in {EmptyObject, CurrentDoc, LegacyDoc, OrphanDoc,
                         DuplicateDoc, NoProgressDoc, NoSettingsDoc, NoProgramsDoc,
                         StrayDoc}}

----------------------------------------------------------------------------
(* Initial state: the page has not run yet *)

\* whether the next localStorage.setItem succeeds
WriteOutcomes == IF gen.failed < MaxFailed THEN BOOLEAN ELSE {TRUE}

\* what the slot can hold when the page is first opened
StartupSlots ==
  {Absent, Garbage} \cup
  {stringify(d) : d \in {CurrentDoc, LegacyDoc, NoSettingsDoc, NoProgramsDoc}}

\* `last` records the handler that ran, how it ended, what saveState did, the
\* id a delete button or a client selector held, whether a restored file was
\* the export of the state it replaced, the values of the name and date
\* fields of a submitted form, when the page is closed, the handler that
\* had run last and the ids the clients had in memory, the idx held by
\* the delete button of a program, exercise or event, and the value of the
\* exercises field of a submitted program form
Did(op, outcome, saved) ==
  [op |-> op, outcome |-> outcome, saved |-> saved, arg |-> NoId, own |-> FALSE,
   name |-> <<>>, date |-> "", after |-> "none", ids |-> <<>>, idx |-> 0,
   value |-> <<>>]

NoOp == Did("none", "none", "none")

Init ==
  /\ state = InitialState
  /\ storage \in StartupSlots
  /\ dom = EmptyDom
  /\ gen \in [crypto : BOOLEAN, now : {0}, uuid : {0}, failed : {0}]
  /\ phase = "boot"
  /\ pending = <<>>
  /\ last = NoOp
  /\ steps = 0

\* What a handler leaves behind
Step ==
  /\ steps < MaxSteps
  /\ steps' = steps + 1

CommitAs(m, did) ==
  /\ Step
  /\ state' = m.state
  /\ storage' = m.storage
  /\ dom' = m.dom
  /\ gen' = m.gen
  /\ last' = did

Commit(m, op, outcome) == CommitAs(m, Did(op, outcome, m.saved))

Outcome(m) == IF m.threw THEN "threw" ELSE "applied"

\* a handler that returns before it touches anything
SkipAs(did) ==
  /\ Step
  /\ last' = did
  /\ UNCHANGED <<state, storage, dom, gen>>

Skip(op) == SkipAs(Did(op, "skipped", "none"))


----------------------------------------------------------------------------
(* Startup: the DOMContentLoaded handler, app.js:584-597 *)

\* loadState, app.js:148-161
loadState(m, slot, now, rnd) ==
  LET m1 == IF slot.kind = "json" THEN [m EXCEPT !.state = parse(slot)] ELSE m
      m2 == migrateState(m1, now, rnd)
      m3 == applyTheme(m2)
  IN IF m3.threw THEN m3 ELSE applyLanguage(m3, m3.state.settings.language)

DOMContentLoaded ==
  /\ phase = "boot"
  /\ \E now \in TimesFor(parse(storage).clients),
        rnd \in RandChoices(parse(storage).clients) :
       LET m1 == loadState(Machine, storage, now, rnd)
           \* setupNavigation shows the first section; setupForms, setupTheme
           \* and setupLanguage attach the handlers
           m2 == renderAll(m1)
       IN /\ phase' = IF m1.threw THEN "dead" ELSE "run"
          /\ Commit(m2, "load", Outcome(m2))
  /\ UNCHANGED pending

IdsOf(clients) == [i \in 1..Len(clients) |-> clients[i].id]

\* The page is closed and opened again: memory and reads in flight are lost,
\* the slot and the files on disk stay.
Reload ==
  /\ phase # "boot"
  /\ Step
  /\ phase' = "boot"
  /\ state' = InitialState
  /\ dom' = EmptyDom
  /\ pending' = <<>>
  /\ last' = [Did("reload", "applied", "none")
                EXCEPT !.after = last.op, !.ids = IdsOf(state.clients)]
  /\ UNCHANGED <<storage, gen>>

----------------------------------------------------------------------------
(* Clients *)

\* client form submit, app.js:472-484
addClient(m0, name, now, rnd, ok) ==
  LET id == generateId("client", m0.gen.crypto, m0.gen.uuid, now, rnd)
      m  == [m0 EXCEPT !.gen = Drawn(@, 1, now)]
  IN
  IF ~Has(m, "clients") THEN Throw(m)
  ELSE
    LET m1 == [m EXCEPT !.state.clients = Append(@, [id |-> id, name |-> name])]
        m2 == saveState(m1, ok)
        m3 == renderClients(m2)
        m4 == updateClientSelect(m3, "progressSelect")
    IN updateClientSelect(m4, "calendarSelect")

AddClient ==
  /\ phase = "run"
  /\ \E input \in NameInputs, ok \in WriteOutcomes,
        now \in Times, rnd \in 0..(RandRange - 1) :
       LET name == trim(input)
       IN IF name = <<>>
            THEN SkipAs([Did("addClient", "skipped", "none") EXCEPT !.name = input])
            ELSE LET m == addClient(Machine, name, now, rnd, ok)
                 IN CommitAs(m, [Did("addClient", Outcome(m), m.saved)
                                   EXCEPT !.name = input])
  /\ UNCHANGED <<phase, pending>>

\* app.js:347
removeClient(clients, clientId) == SelectSeq(clients, LAMBDA c : c.id # clientId)

\* app.js:349-350
cascade(records, clientId) == SelectSeq(records, LAMBDA r : r.clientId # clientId)

\* click on a client's delete button, app.js:345-357
deleteClient(m, clientId, ok) ==
  IF ~Has(m, "clients") THEN Throw(m)
  ELSE
    LET m1 == [m EXCEPT !.state.clients = removeClient(@, clientId)]
    IN IF ~Has(m1, "progress") THEN Throw(m1)
       ELSE
         LET m2 == [m1 EXCEPT !.state.progress = cascade(@, clientId)]
         IN IF ~Has(m2, "events") THEN Throw(m2)
            ELSE
              LET m3 == [m2 EXCEPT !.state.events = cascade(@, clientId)]
                  m4 == saveState(m3, ok)
                  m5 == renderClients(m4)
                  m6 == updateClientSelect(m5, "progressSelect")
                  m7 == updateClientSelect(m6, "calendarSelect")
                  m8 == renderProgressRecords(m7)
              IN renderEvents(m8)

DeleteClient ==
  /\ phase = "run"
  /\ \E k \in 1..Len(dom.clientsList), ok \in WriteOutcomes :
       LET m == deleteClient(Machine, dom.clientsList[k], ok)
       IN CommitAs(m, [Did("deleteClient", Outcome(m), m.saved)
                         EXCEPT !.arg = dom.clientsList[k]])
  /\ UNCHANGED <<phase, pending>>

----------------------------------------------------------------------------
(* Programs and exercises *)

\* program form submit, app.js:487-496
addProgram(m, name, exercises, ok) ==
  IF ~Has(m, "programs") THEN Throw(m)
  ELSE
    LET m1 == [m EXCEPT !.state.programs =
                          Append(@, [name |-> name, exercises |-> exercises])]
    IN renderPrograms(saveState(m1, ok))

\* the handler on the values of the two fields of the form
programSubmit(input, value, ok) ==
  LET name      == trim(input)
      exercises == parseExercises(value)
  IN IF name = <<>>
       THEN SkipAs([Did("addProgram", "skipped", "none")
                      EXCEPT !.name = input, !.value = value])
       ELSE LET m == addProgram(Machine, name, exercises, ok)
            IN CommitAs(m, [Did("addProgram", Outcome(m), m.saved)
                              EXCEPT !.name = input, !.value = value])

AddProgram ==
  /\ phase = "run"
  /\ \E input \in NameInputs, value \in ExerciseInputs, ok \in WriteOutcomes :
       programSubmit(input, value, ok)
  /\ UNCHANGED <<phase, pending>>

\* click on a program's delete button, app.js:377-381
deleteProgram(m, idx, ok) ==
  IF ~Has(m, "programs") THEN Throw(m)
  ELSE renderPrograms(saveState([m EXCEPT !.state.programs = Splice(@, idx)], ok))

DeleteProgram ==
  /\ phase = "run"
  /\ \E k \in 1..Len(dom.programsList), ok \in WriteOutcomes :
       LET m == deleteProgram(Machine, k - 1, ok)
       IN CommitAs(m, [Did("deleteProgram", Outcome(m), m.saved) EXCEPT !.idx = k - 1])
  /\ UNCHANGED <<phase, pending>>

\* exercise form submit, app.js:499-508
addExercise(m, name, muscle, ok) ==
  IF ~Has(m, "exercises") THEN Throw(m)
  ELSE
    LET m1 == [m EXCEPT !.state.exercises =
                          Append(@, [name |-> name, muscle |-> muscle])]
    IN renderExercises(saveState(m1, ok))

AddExercise ==
  /\ phase = "run"
  /\ \E input \in NameInputs, ok \in WriteOutcomes :
       LET name   == trim(input)
           muscle == trim(<<" ">>)
       IN IF name = <<>>
            THEN SkipAs([Did("addExercise", "skipped", "none") EXCEPT !.name = input])
            ELSE LET m == addExercise(Machine, name, muscle, ok)
                 IN CommitAs(m, [Did("addExercise", Outcome(m), m.saved)
                                   EXCEPT !.name = input])
  /\ UNCHANGED <<phase, pending>>

\* click on an exercise's delete button, app.js:401-405
deleteExercise(m, idx, ok) ==
  IF ~Has(m, "exercises") THEN Throw(m)
  ELSE renderExercises(saveState([m EXCEPT !.state.exercises = Splice(@, idx)], ok))

DeleteExercise ==
  /\ phase = "run"
  /\ \E k \in 1..Len(dom.exercisesList), ok \in WriteOutcomes :
       LET m == deleteExercise(Machine, k - 1, ok)
       IN CommitAs(m, [Did("deleteExercise", Outcome(m), m.saved) EXCEPT !.idx = k - 1])
  /\ UNCHANGED <<phase, pending>>

----------------------------------------------------------------------------
(* Progress records and calendar events *)

\* progress form submit, app.js:511-522
addProgress(m, clientId, date, ok) ==
  IF ~Has(m, "progress") THEN Throw(m)
  ELSE
    LET record == [clientId |-> clientId, hasIndex |-> FALSE, clientIndex |-> 0,
                   date |-> date]
        m1 == [m EXCEPT !.state.progress = Append(@, record)]
    IN renderProgressRecords(saveState(m1, ok))

AddProgress ==
  /\ phase = "run"
  /\ \E clientId \in Range(dom.progressSelect) \cup {NoId},
        date \in DateInputs, ok \in WriteOutcomes :
       IF clientId = NoId \/ date = ""
         THEN SkipAs([Did("addProgress", "skipped", "none")
                        EXCEPT !.arg = clientId, !.date = date])
         ELSE LET m == addProgress(Machine, clientId, date, ok)
              IN CommitAs(m, [Did("addProgress", Outcome(m), m.saved)
                                EXCEPT !.arg = clientId, !.date = date])
  /\ UNCHANGED <<phase, pending>>

\* calendar form submit, app.js:526-537
addEvent(m, clientId, date, ok) ==
  IF ~Has(m, "events") THEN Throw(m)
  ELSE
    LET event == [clientId |-> clientId, hasIndex |-> FALSE, clientIndex |-> 0,
                  date |-> date]
        m1 == [m EXCEPT !.state.events = Append(@, event)]
    IN renderEvents(saveState(m1, ok))

AddEvent ==
  /\ phase = "run"
  /\ \E clientId \in Range(dom.calendarSelect) \cup {NoId},
        date \in DateInputs, ok \in WriteOutcomes :
       IF clientId = NoId \/ date = ""
         THEN SkipAs([Did("addEvent", "skipped", "none")
                        EXCEPT !.arg = clientId, !.date = date])
         ELSE LET m == addEvent(Machine, clientId, date, ok)
              IN CommitAs(m, [Did("addEvent", Outcome(m), m.saved)
                                EXCEPT !.arg = clientId, !.date = date])
  /\ UNCHANGED <<phase, pending>>

\* click on an event's delete button, app.js:458-462
deleteEvent(m, idx, ok) ==
  IF ~Has(m, "events") THEN Throw(m)
  ELSE renderEvents(saveState([m EXCEPT !.state.events = Splice(@, idx)], ok))

DeleteEvent ==
  /\ phase = "run"
  /\ \E k \in 1..Len(dom.calendarEvents), ok \in WriteOutcomes :
       LET m == deleteEvent(Machine, k - 1, ok)
       IN CommitAs(m, [Did("deleteEvent", Outcome(m), m.saved) EXCEPT !.idx = k - 1])
  /\ UNCHANGED <<phase, pending>>

\* click on a navigation button, app.js:176-181
ShowSection ==
  /\ phase = "run"
  /\ \E sectionId \in {"progress", "calendar"} :
       LET m == showSection(Machine, sectionId)
       IN Commit(m, "showSection", Outcome(m))
  /\ UNCHANGED <<phase, pending>>

----------------------------------------------------------------------------
(* Settings *)

\* theme select change, app.js:213-217
themeChange(m, theme, ok) ==
  IF ~Has(m, "settings") THEN Throw(m)
  ELSE saveState([m EXCEPT !.state.settings.theme = theme], ok)

ThemeChange ==
  /\ phase = "run"
  /\ \E theme \in ThemeOptions, ok \in WriteOutcomes :
       LET m == themeChange(Machine, theme, ok)
       IN Commit(m, "themeChange", Outcome(m))
  /\ UNCHANGED <<phase, pending>>

\* language select change, app.js:307-310
languageChange(m, lang, ok) == saveState(applyLanguage(m, lang), ok)

LanguageChange ==
  /\ phase = "run"
  /\ \E lang \in LanguageOptions, ok \in WriteOutcomes :
       LET m == languageChange(Machine, lang, ok)
       IN Commit(m, "languageChange", Outcome(m))
  /\ UNCHANGED <<phase, pending>>

----------------------------------------------------------------------------
(* Backup and restore *)

\* (variant: only the five collections are exported)
exportCollections(st) == stringify([st EXCEPT !.has = @ \ {"settings"}])

\* click on the backup button, app.js:539-547: the downloaded document
exportState(st) == stringify(st)

Backup ==
  /\ phase = "run"
  /\ Step
  /\ last' = Did("backup", "applied", "none")
  /\ UNCHANGED <<state, storage, dom, gen, phase, pending>>

\* click on the restore button, app.js:548-552 and 566: the read is started
\* and completes later
RestoreClick ==
  /\ phase = "run"
  /\ Step
  \* the file picked is one of Files, or the document just downloaded
  /\ \E file \in Files \cup {exportState(state) : b \in {last.op} \cap {"backup"}} :
       /\ pending' = Append(pending, file)
       /\ last' = Did("restoreClick", "applied", "none")
  /\ UNCHANGED <<state, storage, dom, gen, phase>>

\* (variant: the imported document is persisted before it is migrated)
restoreSavesFirst(m, file, now, rnd, ok) ==
  IF file.kind # "json" THEN Throw(m)
  ELSE
    LET m1 == [m EXCEPT !.state = parse(file)]
        m2 == saveState(m1, ok)
        m3 == migrateState(m2, now, rnd)
        m4 == applyTheme(m3)
        m5 == IF m4.threw THEN m4 ELSE applyLanguage(m4, m4.state.settings.language)
    IN renderAll(m5)

\* reader.onload, app.js:553-565
restore(m, file, now, rnd, ok) ==
  IF file.kind # "json" THEN Throw(m)
  ELSE
    LET m1 == [m EXCEPT !.state = parse(file)]
        m2 == migrateState(m1, now, rnd)
        m3 == applyTheme(m2)
        m4 == IF m3.threw THEN m3 ELSE applyLanguage(m3, m3.state.settings.language)
        m5 == saveState(m4, ok)
    IN renderAll(m5)

RestoreOnload ==
  /\ phase = "run"
  /\ \E k \in 1..Len(pending), ok \in WriteOutcomes :
       \E now \in TimesFor(parse(pending[k]).clients),
          rnd \in RandChoices(parse(pending[k]).clients) :
         LET m == restore(Machine, pending[k], now, rnd, ok)
         IN /\ pending' = Splice(pending, k - 1)
            \* the catch clause raises alert('Invalid backup file')
            /\ CommitAs(m, [Did("restore", IF m.threw THEN "alert" ELSE "applied", m.saved)
                              EXCEPT !.own = (pending[k] = exportState(state))])
  /\ UNCHANGED phase

----------------------------------------------------------------------------

Next ==
  \/ DOMContentLoaded
  \/ Reload
  \/ AddClient
  \/ DeleteClient
  \/ AddProgram
  \/ DeleteProgram
  \/ AddExercise
  \/ DeleteExercise
  \/ AddProgress
  \/ AddEvent
  \/ DeleteEvent
  \/ ShowSection
  \/ ThemeChange
  \/ LanguageChange
  \/ Backup
  \/ RestoreClick
  \/ RestoreOnload

Spec == Init /\ [][Next]_vars

----------------------------------------------------------------------------
(* migrateState on its own: a raw document is put in the slot, parsed and
   migrated, and the result is migrated a second time. *)

SeqsUpTo(S, n) == UNION {[1..k -> S] : k \in 0..n}

RawClients == SeqsUpTo({Client(NoId), Client(DocIdA)}, MaxRawClients)

RawIndexes == (0 - 1)..MaxRawClients

\* the client reference of a record: <<clientId, has clientIndex, clientIndex>>
RawRefs ==
  {<<c, FALSE, 0>> : c \in {NoId, DocIdA}} \cup
  {<<NoId, TRUE, i>> : i \in RawIndexes} \cup
  {<<DocIdA, TRUE, 0>>}

Dates == <<"2024-01-01", "2024-01-02", "2024-01-03", "2024-01-04">>

\* records with these references, each with a date of its own
Dated(refs) ==
  [k \in 1..Len(refs) |->
     [clientId |-> refs[k][1], hasIndex |-> refs[k][2], clientIndex |-> refs[k][3],
      date |-> Dates[k]]]

\* events: of no client, of a client the document does not hold, of the
\* first client by position, and of a position past the end of every list
RawEventKinds ==
  {Rec(NoId, FALSE, 0), Rec(DocIdB, FALSE, 0),
   Rec(NoId, TRUE, 0), Rec(NoId, TRUE, MaxRawClients)}

RawDocs ==
  {FileDoc(Fields, c, Dated(p), e) :
     c \in RawClients,
     p \in SeqsUpTo(RawRefs, MaxRawRecords),
     e \in SeqsUpTo(RawEventKinds, 1)}

InitMigrate ==
  /\ state = InitialState
  /\ storage \in {stringify(d) : d \in RawDocs}
  /\ dom = EmptyDom
  /\ gen \in [crypto : BOOLEAN, now : {0}, uuid : {0}, failed : {0}]
  /\ phase = "raw"
  /\ pending = <<>>
  /\ last = NoOp
  /\ steps = 0

\* the document before migration
Raw == parse(storage)

Migrate ==
  /\ phase = "raw"
  /\ \E now \in TimesFor(Raw.clients), rnd \in RandChoices(Raw.clients) :
       LET m == migrateState([Machine EXCEPT !.state = Raw], now, rnd)
       IN /\ state' = m.state
          /\ gen' = m.gen
          /\ last' = Did("migrate", Outcome(m), "none")
  /\ phase' = "once"
  /\ UNCHANGED <<storage, dom, pending, steps>>

MigrateAgain ==
  /\ phase = "once"
  /\ \E now \in TimesFor(state.clients), rnd \in RandChoices(state.clients) :
       LET m == migrateState(Machine, now, rnd)
       IN /\ state' = m.state
          /\ gen' = m.gen
          /\ last' = Did("migrate", Outcome(m), "none")
  /\ phase' = "twice"
  /\ UNCHANGED <<storage, dom, pending, steps>>

NextMigrate ==
  \/ Migrate
  \/ MigrateAgain

SpecMigrate == InitMigrate /\ [][NextMigrate]_vars

----------------------------------------------------------------------------
(* The positional variant (app.js:599-1107) followed by the upgrade: the
   page of the earlier version is used for a while, then the page of the
   present version is opened on the slot the earlier one wrote.  A record
   carries, besides what the code stores, `owner`: the name of the client
   that was selected when it was written.  It is not in the code; no
   function reads it. *)

\* the k-th client entered is given the k-th name, so a name tells a client
LegacyNames == <<<<"A">>, <<"B">>, <<"C">>>>

\* updateClientSelect, renderClients, app.js:843-891: the delete buttons and
\* the options hold positions
legacyRender(m) ==
  LET positions == [i \in 1..Len(m.state.clients) |-> i - 1]
  IN [m EXCEPT !.dom.clientsList    = positions,
               !.dom.progressSelect = positions,
               !.dom.calendarSelect = positions,
               !.dom.calendarEvents = m.state.events]

\* client form submit, app.js:991-1003
legacyAddClient(m, name, ok) ==
  legacyRender(saveState([m EXCEPT !.state.clients = Append(@, [id |-> NoId, name |-> name])], ok))

\* progress and calendar form submit, app.js:1030-1040 and 1044-1055
legacyRecord(m, clientIndex, date) ==
  [clientId |-> NoId, hasIndex |-> TRUE, clientIndex |-> clientIndex, date |-> date,
   owner |-> m.state.clients[clientIndex + 1].name]

legacyAddProgress(m, clientIndex, date, ok) ==
  legacyRender(saveState([m EXCEPT !.state.progress = Append(@, legacyRecord(m, clientIndex, date))], ok))

legacyAddEvent(m, clientIndex, date, ok) ==
  legacyRender(saveState([m EXCEPT !.state.events = Append(@, legacyRecord(m, clientIndex, date))], ok))

\* app.js:879-880
legacyCascade(records, idx) == SelectSeq(records, LAMBDA r : r.clientIndex # idx)

\* click on a client's delete button, app.js:876-887
legacyDeleteClient(m, idx, ok) ==
  legacyRender(saveState([m EXCEPT !.state.clients  = Splice(@, idx),
                                   !.state.progress = legacyCascade(@, idx),
                                   !.state.events   = legacyCascade(@, idx)], ok))

InitLegacy ==
  /\ state = InitialState
  /\ storage = Absent
  /\ dom = EmptyDom
  /\ gen \in [crypto : BOOLEAN, now : {0}, uuid : {0}, failed : {0}]
  /\ phase = "legacy"
  /\ pending = <<>>
  /\ last = NoOp
  /\ steps = 0

LegacyCommit(m, did) ==
  /\ phase = "legacy"
  /\ steps < MaxLegacySteps
  /\ steps' = steps + 1
  /\ state' = m.state
  /\ storage' = m.storage
  /\ dom' = m.dom
  /\ gen' = m.gen
  /\ last' = did
  /\ UNCHANGED <<phase, pending>>

LegacyAddClient ==
  /\ gen.uuid < Len(LegacyNames)
  /\ \E ok \in WriteOutcomes :
       LET m == legacyAddClient([Machine EXCEPT !.gen.uuid = @ + 1],
                                LegacyNames[gen.uuid + 1], ok)
       IN LegacyCommit(m, Did("addClient", "applied", m.saved))

LegacyAddProgress ==
  \E k \in 1..Len(dom.progressSelect), ok \in WriteOutcomes :
    LET m == legacyAddProgress(Machine, dom.progressSelect[k], "2024-01-01", ok)
    IN LegacyCommit(m, Did("addProgress", "applied", m.saved))

LegacyAddEvent ==
  \E k \in 1..Len(dom.calendarSelect), ok \in WriteOutcomes :
    LET m == legacyAddEvent(Machine, dom.calendarSelect[k], "2024-01-01", ok)
    IN LegacyCommit(m, Did("addEvent", "applied", m.saved))

LegacyDeleteClient ==
  \E k \in 1..Len(dom.clientsList), ok \in WriteOutcomes :
    LET m == legacyDeleteClient(Machine, dom.clientsList[k], ok)
    IN LegacyCommit(m, Did("deleteClient", "applied", m.saved))

\* the page of the present version is opened: DOMContentLoaded, app.js:584-597
Upgrade ==
  /\ phase = "legacy"
  /\ \E now \in TimesFor(parse(storage).clients),
        rnd \in RandChoices(parse(storage).clients) :
       LET m1 == loadState([Machine EXCEPT !.state = InitialState, !.dom = EmptyDom],
                           storage, now, rnd)
           m2 == renderAll(m1)
       IN /\ state' = m2.state
          /\ dom' = m2.dom
          /\ gen' = m2.gen
          /\ last' = Did("load", Outcome(m2), "none")
  /\ phase' = "migrated"
  /\ UNCHANGED <<storage, pending, steps>>

NextLegacy ==
  \/ LegacyAddClient
  \/ LegacyAddProgress
  \/ LegacyAddEvent
  \/ LegacyDeleteClient
  \/ Upgrade

SpecLegacy == InitLegacy /\ [][NextLegacy]_vars

----------------------------------------------------------------------------
(* Properties *)

ClientIds(st) == {st.clients[i].id : i \in 1..Len(st.clients)}

Records(st) == Range(st.progress) \cup Range(st.events)

MutatingOps ==
  {"addClient", "deleteClient", "addProgram", "deleteProgram", "addExercise",
   "deleteExercise", "addProgress", "addEvent", "deleteEvent", "themeChange",
   "languageChange", "restore"}

\* C1 -- Referential integrity: once the page has loaded, every progress
\* record and every calendar event names, by clientId, a client that is in
\* the client sequence, and none carries a clientIndex.
C1_ReferentialIntegrity ==
  phase = "run" =>
    \A r \in Records(state) : r.clientId \in ClientIds(state) /\ ~r.hasIndex

\* C2 -- Restore failure isolation: a restore that ends with the failure
\* notice leaves the in-memory state exactly as it was before the file was
\* delivered.
C2_RestoreFailureIsolation ==
  [][(last'.op = "restore" /\ last'.outcome = "alert" /\ steps' # steps)
       => state' = state]_vars

\* C3 -- Cascade delete: right after the delete button of a client C that is
\* in the store is clicked, C is not in the client sequence and no progress
\* record or event has C's id as clientId.
C3_CascadeDelete ==
  [][(last'.op = "deleteClient" /\ steps' # steps /\ last'.arg \in ClientIds(state))
       => /\ last'.arg \notin ClientIds(state')
          /\ \A r \in Records(state') : r.clientId # last'.arg]_vars

\* C4 -- Client id uniqueness: once the page has loaded, every client has a
\* non-empty id and no two positions of the client sequence hold the same id.
C4_UniqueClientIds ==
  phase = "run" =>
    /\ "clients" \in state.has
    /\ \A i \in 1..Len(state.clients) : state.clients[i].id # NoId
    /\ \A i, j \in 1..Len(state.clients) :
         state.clients[i].id = state.clients[j].id => i = j

\* C5 -- Settings presence: in every state the settings object exists with a
\* theme and a language (the defaults when the document had none).
C5_SettingsPresent ==
  /\ "settings" \in state.has
  /\ state.settings.theme # ""
  /\ state.settings.language # ""

\* C6 -- Write-through persistence: when a mutating handler has run to its
\* end, it has called the storage write, and unless that write failed the
\* slot holds the serialisation of the in-memory state.
C6_WriteThrough ==
  (last.op \in MutatingOps /\ last.outcome = "applied") =>
    /\ last.saved \in {"ok", "failed"}
    /\ last.saved = "ok" => storage = stringify(state)

C6_Witness ==
  /\ last.op = "deleteProgram"
  /\ last.outcome = "applied"
  /\ last.saved = "ok"
  /\ state.programs # <<>>
  /\ state.clients # <<>>

\* C8 -- Backup round trip: delivering to the restore handler the document
\* that the backup button produces for the current state leaves clients,
\* programs (with their exercises in order), exercises, progress, events and
\* settings as they were.
C8_RoundTrip ==
  [][(last'.op = "restore" /\ last'.own /\ steps' # steps) => state' = state]_vars

C8_Witness ==
  /\ last.op = "restore"
  /\ last.own
  /\ last.outcome = "applied"
  /\ \E i \in 1..Len(state.programs) : Len(state.programs[i].exercises) >= 2
  /\ state.clients # <<>>
  /\ state.progress # <<>>

----------------------------------------------------------------------------
(* Properties of migrateState alone (SpecMigrate) *)

\* a positional reference that names no position of n clients
Dangling(r, n) == r.clientId = NoId /\ r.hasIndex /\ r.clientIndex \notin 0..(n - 1)

\* a positional reference to one of n clients
Resolvable(r, n) == r.clientId = NoId /\ r.hasIndex /\ r.clientIndex \in 0..(n - 1)

\* where the i-th record of raw is found once the dangling ones are gone
Survivors(raw, i, n) == Cardinality({j \in 1..i : ~Dangling(raw[j], n)})

\* C7 -- Idempotent migration: applying migrateState to a migrated state
\* changes nothing.
C7_Idempotent ==
  [][(phase = "once" /\ phase' = "twice") => state' = state]_vars

C7_Witness ==
  /\ phase = "twice"
  /\ \E i \in 1..Len(Raw.clients) : Raw.clients[i].id = NoId
  /\ \E i \in 1..Len(Raw.progress) : Resolvable(Raw.progress[i], Len(Raw.clients))
  /\ \E i \in 1..Len(Raw.progress) :
       Raw.progress[i].clientId # NoId /\ Raw.progress[i].hasIndex
  /\ \E i \in 1..Len(Raw.events) :
       Raw.events[i].clientId = NoId /\ ~Raw.events[i].hasIndex

ResolvedIn(raw, out, clients) ==
  \A i \in 1..Len(raw) :
    Resolvable(raw[i], Len(clients)) =>
      LET k == Survivors(raw, i, Len(clients))
      IN /\ k \in 1..Len(out)
         /\ clients[raw[i].clientIndex + 1].id # NoId
         /\ out[k] = [clientId    |-> clients[raw[i].clientIndex + 1].id,
                      hasIndex    |-> FALSE,
                      clientIndex |-> 0,
                      date        |-> raw[i].date]

\* C9 -- Legacy reference resolution: a record without clientId whose
\* clientIndex i is a position of the client sequence comes out of migration
\* with the id of the client at position i (the id it had, or the one given
\* to it in this pass), without clientIndex and otherwise unchanged; the
\* clients keep their positions.
C9_LegacyResolution ==
  phase = "once" =>
    /\ Len(state.clients) = Len(Raw.clients)
    /\ \A i \in 1..Len(Raw.clients) :
         /\ state.clients[i].name = Raw.clients[i].name
         /\ Raw.clients[i].id # NoId => state.clients[i].id = Raw.clients[i].id
    /\ ResolvedIn(Raw.progress, state.progress, state.clients)
    /\ ResolvedIn(Raw.events, state.events, state.clients)

C9_Witness ==
  /\ phase = "once"
  /\ Len(Raw.clients) = 2
  /\ Raw.clients[1].id # NoId
  /\ Raw.clients[2].id = NoId
  /\ \E i \in 1..Len(Raw.progress) :
       Resolvable(Raw.progress[i], 2) /\ Raw.progress[i].clientIndex = 1
  /\ \E i \in 1..Len(Raw.events) :
       Resolvable(Raw.events[i], 2) /\ Raw.events[i].clientIndex = 0

KeptIn(raw, out, n) ==
  /\ Len(out) = Survivors(raw, Len(raw), n)
  /\ \A i \in 1..Len(raw) :
       ~Dangling(raw[i], n) =>
         /\ out[Survivors(raw, i, n)].date = raw[i].date
         /\ raw[i].clientId # NoId => out[Survivors(raw, i, n)].clientId = raw[i].clientId

\* C10 -- Dangling legacy reference dropped: the records without clientId
\* whose clientIndex is negative or not below the number of clients are gone
\* after migration, and every other record is still there, in order.
C10_DanglingDropped ==
  phase = "once" =>
    /\ KeptIn(Raw.progress, state.progress, Len(Raw.clients))
    /\ KeptIn(Raw.events, state.events, Len(Raw.clients))

C10_Witness ==
  /\ phase = "once"
  /\ Len(Raw.clients) = 2
  /\ Len(Raw.progress) = 2
  /\ Dangling(Raw.progress[1], 2)
  /\ Raw.progress[1].clientIndex = 2
  /\ ~Dangling(Raw.progress[2], 2)
  /\ Len(state.progress) = 1
  /\ \E i \in 1..Len(Raw.events) : Dangling(Raw.events[i], 2)
  /\ state.events = <<>>

----------------------------------------------------------------------------
(* Input validation *)

\* a text with nothing but white space in it
Blank(s) == \A i \in 1..Len(s) : IsSpace(s[i])

\* C11 -- Validation no-op: a submit of the client, program or exercise form
\* whose name field holds nothing but white space leaves the state, the
\* slot and the page as they were.
C11_ValidationNoOp ==
  [][(steps' # steps /\ last'.op \in {"addClient", "addProgram", "addExercise"}
        /\ Blank(last'.name))
       => /\ state' = state
          /\ storage' = storage
          /\ dom' = dom
          /\ gen' = gen]_vars

C11_Witness ==
  /\ last.op = "addProgram"
  /\ last.name = <<" ", " ">>
  /\ state.clients # <<>>
  /\ "progress" \in state.has

\* the record a submit with this selector value and date is to add
Submitted(did) ==
  [clientId |-> did.arg, hasIndex |-> FALSE, clientIndex |-> 0, date |-> did.date]

\* C12 -- No empty reference or date: a submit of the progress or calendar
\* form with no client selected or with no date leaves progress and events
\* as they were; a submit with both appends one record with that clientId
\* and date to the form's sequence and leaves the other sequence alone.
C12_NoEmptyReference ==
  [][(steps' # steps /\ last'.op \in {"addProgress", "addEvent"})
       => IF last'.arg = NoId \/ last'.date = ""
            THEN state'.progress = state.progress /\ state'.events = state.events
          ELSE IF last'.op = "addProgress"
            THEN /\ "progress" \in state'.has
                 /\ state'.progress = Append(state.progress, Submitted(last'))
                 /\ state'.events = state.events
            ELSE /\ "events" \in state'.has
                 /\ state'.events = Append(state.events, Submitted(last'))
                 /\ state'.progress = state.progress]_vars

----------------------------------------------------------------------------
(* Failures *)

\* C13 -- No fatal failure: no handler ends in an exception that nothing
\* catches, and the page load always gets as far as attaching the handlers,
\* whatever the slot held and whatever files were restored.
C13_NoFatalFailure ==
  /\ last.outcome # "threw"
  /\ phase # "dead"

----------------------------------------------------------------------------
(* Identity of clients *)

\* C14 -- Client id stability: a handler of the running page leaves every
\* client it keeps with the id it had (a new client is put after the others,
\* a deleted one is taken out); restoring the page's own export gives the
\* same clients back; and a load of the slot that follows a load of the same
\* slot, with nothing but the reopening of the page in between, gives the
\* clients the ids the first load gave them.
C14_IdStability ==
  [][steps' # steps =>
       /\ last'.op = "addClient" =>
            SubSeq(state'.clients, 1, Len(state.clients)) = state.clients
       /\ last'.op = "deleteClient" =>
            state'.clients \in {state.clients, removeClient(state.clients, last'.arg)}
       /\ last'.op \in MutatingOps \ {"addClient", "deleteClient", "restore"} =>
            state'.clients = state.clients
       /\ (last'.op = "restore" /\ last'.own) => state'.clients = state.clients
       /\ (last.op = "reload" /\ last.after = "load" /\ last'.op = "load") =>
            IdsOf(state'.clients) = last.ids]_vars

----------------------------------------------------------------------------
(* Restore *)

\* a file that holds a well-formed state document: it parses, and the five
\* collections and the settings are there
ValidDocument(file) == file.kind = "json" /\ DOMAIN file.text = Fields

\* C15 -- Restore is one critical section: while a file picked for restore
\* is still being read (the click has been handled, onload has not run), no
\* other handler changes the state, so that the restore never replaces a
\* change made after it was started.
C15_RestoreCriticalSection ==
  [][(pending # <<>> /\ steps' # steps /\ last'.op \in MutatingOps \ {"restore"})
       => state' = state]_vars

\* C17 -- Restore failure is surfaced: the delivery of a file that is not a
\* valid document ends with the notice 'Invalid backup file', and a delivery
\* that ends with the notice has changed neither the state nor the slot.
C17_RestoreFailureSurfaced ==
  [][(steps' # steps /\ last'.op = "restore")
       => /\ \A k \in 1..Len(pending) :
               (pending' = Splice(pending, k - 1) /\ ~ValidDocument(pending[k]))
                 => last'.outcome = "alert"
          /\ last'.outcome = "alert" => (state' = state /\ storage' = storage)]_vars

\* C19 -- The persisted document is well-formed: whatever a handler writes
\* to the slot, also during a restore that ends with the failure notice, is
\* a document with the five collections and the settings, so that the next
\* page load finds a document it can load.
C19_PersistedWellFormed ==
  [][storage' # storage => ValidDocument(storage')]_vars

\* every client has an id and no record carries a clientIndex
Migrated(st) ==
  /\ \A i \in 1..Len(st.clients) : st.clients[i].id # NoId
  /\ \A r \in Records(st) : ~r.hasIndex

\* the state is what migrateState makes of one of the files being delivered
MigratedImport ==
  \E k \in 1..Len(pending) :
    /\ pending' = Splice(pending, k - 1)
    /\ pending[k].kind = "json"
    /\ \E now \in TimesFor(parse(pending[k]).clients),
          rnd \in RandChoices(parse(pending[k]).clients) :
         state' = migrateState([Machine EXCEPT !.state = parse(pending[k])], now, rnd).state

\* C20 as stated -- Successful restore is migrated before it is persisted:
\* after a restore that ends without the failure notice the state is the
\* imported document passed through migrateState, and the slot holds that
\* migrated state (no clientIndex, every client with an id).
C20_RestorePersistsMigrated ==
  [][(steps' # steps /\ last'.op = "restore" /\ last'.outcome = "applied")
       => /\ MigratedImport
          /\ Migrated(state')
          /\ storage' = stringify(state')]_vars

\* C20 as amended -- after a restore that ends without the failure notice
\* the state is the imported document passed through migrateState, the
\* storage write has been attempted after the migration and, unless that
\* write failed, the slot holds that migrated state (no clientIndex, every
\* client with an id); when the write failed the slot holds what it held.
C20_RestoreMigratedThenPersisted ==
  [][(steps' # steps /\ last'.op = "restore" /\ last'.outcome = "applied")
       => /\ MigratedImport
          /\ Migrated(state')
          /\ last'.saved \in {"ok", "failed"}
          /\ last'.saved = "ok" =>
               (storage' = stringify(state') /\ Migrated(parse(storage')))
          /\ last'.saved = "failed" => storage' = storage]_vars

\* the positional document has been restored: two clients with fresh ids,
\* the progress record resolved, the dangling event dropped, all of it in
\* the slot
C20_Witness ==
  /\ last.op = "restore"
  /\ last.outcome = "applied"
  /\ last.saved = "ok"
  /\ Len(state.clients) = 2
  /\ state.clients[1].id[1] \in {"client", "uuid"}
  /\ Len(state.progress) = 1
  /\ state.progress[1].clientId = state.clients[2].id
  /\ state.events = <<>>
  /\ storage = stringify(state)

----------------------------------------------------------------------------
(* Failing writes *)

\* what the handler `op` can leave behind, from the present state, when its
\* storage write succeeds
Written(op) ==
  CASE op = "addClient" ->
         {addClient(Machine, trim(input), now, rnd, TRUE) :
            input \in {i \in NameInputs : ~Blank(i)}, now \in Times,
            rnd \in 0..(RandRange - 1)}
    [] op = "deleteClient" ->
         {deleteClient(Machine, dom.clientsList[k], TRUE) : k \in 1..Len(dom.clientsList)}
    [] op = "addProgram" ->
         {addProgram(Machine, trim(input), parseExercises(value), TRUE) :
            input \in {i \in NameInputs : ~Blank(i)}, value \in ExerciseInputs}
    [] op = "deleteProgram" ->
         {deleteProgram(Machine, k - 1, TRUE) : k \in 1..Len(dom.programsList)}
    [] op = "addExercise" ->
         {addExercise(Machine, trim(input), trim(<<" ">>), TRUE) :
            input \in {i \in NameInputs : ~Blank(i)}}
    [] op = "deleteExercise" ->
         {deleteExercise(Machine, k - 1, TRUE) : k \in 1..Len(dom.exercisesList)}
    [] op = "addProgress" ->
         {addProgress(Machine, clientId, date, TRUE) :
            clientId \in Range(dom.progressSelect) \ {NoId}, date \in DateInputs \ {""}}
    [] op = "addEvent" ->
         {addEvent(Machine, clientId, date, TRUE) :
            clientId \in Range(dom.calendarSelect) \ {NoId}, date \in DateInputs \ {""}}
    [] op = "deleteEvent" ->
         {deleteEvent(Machine, k - 1, TRUE) : k \in 1..Len(dom.calendarEvents)}
    [] op = "themeChange" ->
         {themeChange(Machine, theme, TRUE) : theme \in ThemeOptions}
    [] op = "languageChange" ->
         {languageChange(Machine, lang, TRUE) : lang \in LanguageOptions}
    [] op = "restore" ->
         UNION {{restore(Machine, pending[k], now, rnd, TRUE) :
                   now \in TimesFor(parse(pending[k]).clients),
                   rnd \in RandChoices(parse(pending[k]).clients)} :
                k \in 1..Len(pending)}
    [] OTHER -> {}

\* C16 -- Persistence failure tolerance: when the storage write of a handler
\* fails, the slot keeps what it held, the write is tried once only, and the
\* handler leaves the state and the page, and ends, as it does when the
\* write succeeds: the change is in memory and no error comes out of it.
C16_WriteFailureTolerated ==
  [][(steps' # steps /\ last'.saved = "failed")
       => /\ storage' = storage
          /\ gen'.failed = gen.failed + 1
          /\ \E m \in Written(last'.op) :
               /\ m.state = state'
               /\ m.dom = dom'
               /\ m.threw = (last'.outcome \in {"threw", "alert"})]_vars

\* a client added while the write failed: in memory, not in the slot
C16_Witness ==
  /\ last.op = "addClient"
  /\ last.outcome = "applied"
  /\ last.saved = "failed"
  /\ storage.kind = "json"
  /\ Len(state.clients) = Len(parse(storage).clients) + 1
  /\ dom.clientsList = IdsOf(state.clients)

----------------------------------------------------------------------------
(* The positional variant *)

\* C18 -- Attribution is preserved across the legacy format: after clients,
\* progress records and events have been entered and clients deleted in the
\* positional variant, every record that the upgrade keeps carries the id
\* of the client that was selected when the record was written.
C18_AttributionPreserved ==
  phase = "migrated" =>
    \A r \in Records(state) :
      \E i \in 1..Len(state.clients) :
        state.clients[i].name = r.owner /\ state.clients[i].id = r.clientId

----------------------------------------------------------------------------
(* migrateState and the records that are not positional (SpecMigrate) *)

\* the records of raw that carry a clientId are found in out, at the place
\* the removal of the dangling ones leaves them, as Kept makes of them
PassedThrough(raw, out, n, Kept(_)) ==
  \A i \in 1..Len(raw) :
    raw[i].clientId # NoId =>
      /\ Survivors(raw, i, n) \in 1..Len(out)
      /\ out[Survivors(raw, i, n)] = Kept(raw[i])

\* C21 as stated -- Migration leaves records that already carry a clientId
\* unchanged: such a progress record or event is, after migration, field
\* for field the record it was, a clientIndex included.
C21_ClientIdRecordsIdentical ==
  phase = "once" =>
    /\ PassedThrough(Raw.progress, state.progress, Len(Raw.clients), LAMBDA r : r)
    /\ PassedThrough(Raw.events, state.events, Len(Raw.clients), LAMBDA r : r)

\* the record without its clientIndex field
WithoutIndex(r) == [r EXCEPT !.hasIndex = FALSE, !.clientIndex = 0]

\* C21 as amended -- a progress record or event that carries a clientId
\* comes out of migration with that clientId and with every other field as
\* it was, except that a clientIndex it carried is removed.
C21_ClientIdRecordsKept ==
  phase = "once" =>
    /\ PassedThrough(Raw.progress, state.progress, Len(Raw.clients), WithoutIndex)
    /\ PassedThrough(Raw.events, state.events, Len(Raw.clients), WithoutIndex)

\* a record with a clientId and a clientIndex behind a dangling one, among
\* clients without id, and an event with the id of no client
C21_Witness ==
  /\ phase = "once"
  /\ Len(Raw.clients) = 2
  /\ Raw.clients[1].id = NoId
  /\ Len(Raw.progress) = 2
  /\ Dangling(Raw.progress[1], 2)
  /\ Raw.progress[2].clientId = DocIdA
  /\ Raw.progress[2].hasIndex
  /\ state.progress = <<WithoutIndex(Raw.progress[2])>>
  /\ \E i \in 1..Len(Raw.events) : Raw.events[i].clientId = DocIdB

\* a record that names no client, neither by id nor by position
Unreferenced(r) == r.clientId = NoId /\ ~r.hasIndex

UnreferencedKept(raw, out, n) ==
  \A i \in 1..Len(raw) :
    Unreferenced(raw[i]) =>
      /\ Survivors(raw, i, n) \in 1..Len(out)
      /\ out[Survivors(raw, i, n)] = raw[i]

\* C27 -- Migration edge case: a progress record or event with neither a
\* clientId nor a clientIndex is kept by migration, every field as it was,
\* at the place it has among the records that survive.
C27_UnreferencedKept ==
  phase = "once" =>
    /\ UnreferencedKept(Raw.progress, state.progress, Len(Raw.clients))
    /\ UnreferencedKept(Raw.events, state.events, Len(Raw.clients))

\* such a record behind a dangling one, and such an event
C27_Witness ==
  /\ phase = "once"
  /\ Len(Raw.clients) = 1
  /\ Len(Raw.progress) = 2
  /\ Dangling(Raw.progress[1], 1)
  /\ Unreferenced(Raw.progress[2])
  /\ state.progress = <<Raw.progress[2]>>
  /\ Len(Raw.events) = 1
  /\ Unreferenced(Raw.events[1])
  /\ state.events = Raw.events

----------------------------------------------------------------------------
(* Deleting by position *)

\* the sequence a delete handler works on, and the entries its list showed
Deleted(op, st) ==
  CASE op = "deleteProgram"  -> st.programs
    [] op = "deleteExercise" -> st.exercises
    [] op = "deleteEvent"    -> st.events

Shown(op) ==
  CASE op = "deleteProgram"  -> dom.programsList
    [] op = "deleteExercise" -> dom.exercisesList
    [] op = "deleteEvent"    -> dom.calendarEvents

\* C22 -- Positional delete: the delete button of the entry shown at
\* position i holds the position that the element shown has in the sequence
\* when the button is clicked, and the click removes that element and no
\* other, the rest staying in order.
C22_PositionalDelete ==
  [][(steps' # steps /\ last'.op \in {"deleteProgram", "deleteExercise", "deleteEvent"})
       => LET i == last'.idx
          IN /\ i + 1 \in 1..Len(Deleted(last'.op, state))
             /\ Deleted(last'.op, state)[i + 1] = Shown(last'.op)[i + 1]
             /\ Deleted(last'.op, state') = Splice(Deleted(last'.op, state), i)]_vars

----------------------------------------------------------------------------
(* The client selectors *)

\* the values other than '' that a selector offers
Offered(selectId) == Range(dom[selectId]) \ {NoId}

\* C23 -- Only valid clients are offered: when a handler that can change the
\* client sequence has run (client submit, client delete, delivery of a
\* restore file, page load), the values that the progress and the calendar
\* selector offer are the ids of the clients in the store, no more and no
\* fewer.
C23_OnlyValidClientsOffered ==
  last.op \in {"addClient", "deleteClient", "restore", "load"} =>
    /\ Offered("progressSelect") = ClientIds(state)
    /\ Offered("calendarSelect") = ClientIds(state)

----------------------------------------------------------------------------
(* Deleting a client *)

\* C24 -- deleteClient is idempotent: a click that deletes an id which no
\* client carries leaves clients, progress and events as they were, and
\* deleting the same id again in the store that a delete left changes none
\* of the three.
C24_DeleteIdempotent ==
  [][(steps' # steps /\ last'.op = "deleteClient")
       => LET id    == last'.arg
              again == deleteClient([Machine EXCEPT !.state = state'], id, TRUE).state
          IN /\ id \notin ClientIds(state) =>
                  /\ state'.clients = state.clients
                  /\ state'.progress = state.progress
                  /\ state'.events = state.events
             /\ again.clients = state'.clients
             /\ again.progress = state'.progress
             /\ again.events = state'.events]_vars

\* the records that name another client than clientId
OfOthers(records, clientId) == SelectSeq(records, LAMBDA r : r.clientId # clientId)

\* C25 -- deleteClient frame: a click on the delete button of client C takes
\* exactly one client, carrying C's id, out of the client sequence and leaves
\* the others in their order; the progress records and the events of other
\* clients stay, in their order; programs, exercises and settings stay as
\* they were.
C25_DeleteFrame ==
  [][(steps' # steps /\ last'.op = "deleteClient")
       => LET id == last'.arg
          IN /\ \E k \in 1..Len(state.clients) :
                  /\ state.clients[k].id = id
                  /\ state'.clients = Splice(state.clients, k - 1)
             /\ OfOthers(state'.progress, id) = OfOthers(state.progress, id)
             /\ OfOthers(state'.events, id) = OfOthers(state.events, id)
             /\ state'.programs = state.programs
             /\ state'.exercises = state.exercises
             /\ state'.settings = state.settings]_vars

----------------------------------------------------------------------------
(* The program form alone: the two fields are filled in, with any text of at
   most MaxInputLen characters in the exercises field, and the form is
   submitted once. *)

Chars == {"a", "b", " ", ","}

TypedValues == SeqsUpTo(Chars, MaxInputLen)

\* the stores the form is submitted on: the empty one and one with programs
ProgramStores == {InitialState, parse(stringify(CurrentDoc))}

InitProgram ==
  /\ state \in ProgramStores
  /\ storage = stringify(state)
  /\ gen \in [crypto : BOOLEAN, now : {0}, uuid : {0}, failed : {0}]
  /\ dom = renderAll([state |-> state, storage |-> storage, dom |-> EmptyDom,
                      gen |-> gen, saved |-> "none", threw |-> FALSE]).dom
  /\ phase = "run"
  /\ pending = <<>>
  /\ \E input \in NameInputs, value \in TypedValues :
       last = [Did("typed", "applied", "none") EXCEPT !.name = input, !.value = value]
  /\ steps = 0

SubmitTyped ==
  /\ phase = "run"
  /\ last.op = "typed"
  /\ \E ok \in WriteOutcomes : programSubmit(last.name, last.value, ok)
  /\ UNCHANGED <<phase, pending>>

NextProgram == SubmitTyped

SpecProgram == InitProgram /\ [][NextProgram]_vars

----------------------------------------------------------------------------
(* Parsing the exercises of a program *)

\* the positions at which an element of a comma-separated text can start:
\* before the text and at each comma; and where the element ends
Starts(v) == {0} \cup {i \in 1..Len(v) : v[i] = ","}

EndOf(v, b) ==
  LET later == {i \in (b + 1)..Len(v) : v[i] = ","}
  IN IF later = {} THEN Len(v) + 1
     ELSE CHOOSE i \in later : \A j \in later : i <= j

\* the characters of the element starting at b that are not white space
Inked(v, b) == {i \in (b + 1)..(EndOf(v, b) - 1) : v[i] # " "}

Lowest(S) == CHOOSE i \in S : \A j \in S : i <= j
Highest(S) == CHOOSE i \in S : \A j \in S : i >= j

\* e is v split at commas, each element trimmed, the empty ones discarded
ElementsOf(v, e) ==
  LET kept  == {b \in Starts(v) : Inked(v, b) # {}}
      nth(k) == CHOOSE b \in kept : Cardinality({c \in kept : c < b}) = k - 1
  IN /\ Len(e) = Cardinality(kept)
     /\ \A k \in 1..Len(e) :
          e[k] = SubSeq(v, Lowest(Inked(v, nth(k))), Highest(Inked(v, nth(k))))

\* C26 -- addProgram exercise parsing: a program form submitted with a name
\* that is empty after trimming stores nothing; submitted with another name
\* it appends one program whose exercises are the text of the exercises
\* field split at commas, each element trimmed and the empty elements
\* discarded, in order and with duplicates kept -- the empty sequence when
\* the text has no non-empty element.
C26_ExerciseParsing ==
  [][(steps' # steps /\ last'.op = "addProgram")
       => IF Blank(last'.name)
            THEN /\ last'.outcome = "skipped"
                 /\ state' = state
            ELSE last'.outcome = "applied" =>
                   /\ Len(state'.programs) = Len(state.programs) + 1
                   /\ SubSeq(state'.programs, 1, Len(state.programs)) = state.programs
                   /\ LET stored == state'.programs[Len(state'.programs)].exercises
                      IN /\ ElementsOf(last'.value, stored)
                         /\ (\A i \in 1..Len(last'.value) : last'.value[i] \in {" ", ","})
                               => stored = <<>>]_vars

\* a text with an element to trim, an empty element and a duplicate
C26_Witness ==
  /\ last.op = "addProgram"
  /\ last.outcome = "applied"
  /\ last.value = <<" ", "a", ",", ",", "a">>
  /\ state.programs[Len(state.programs)].exercises = <<<<"a">>, <<"a">>>>

----------------------------------------------------------------------------
(* Adding a client *)

\* C28 -- addClient: a client form submitted with a name that is not empty
\* after trimming appends exactly one client at the end of the client
\* sequence; the client carries the trimmed name and an id that is not empty
\* and that no client already present carries; the clients already present
\* keep their ids and their order; programs, exercises, progress, events and
\* settings stay as they were.
C28_AddClientAppends ==
  [][(steps' # steps /\ last'.op = "addClient" /\ ~Blank(last'.name))
       => LET n == Len(state.clients)
          IN /\ Len(state'.clients) = n + 1
             /\ SubSeq(state'.clients, 1, n) = state.clients
             /\ state'.clients[n + 1].name = trimEnd(trimStart(last'.name))
             /\ state'.clients[n + 1].id # NoId
             /\ state'.clients[n + 1].id \notin ClientIds(state)
             /\ state'.programs = state.programs
             /\ state'.exercises = state.exercises
             /\ state'.progress = state.progress
             /\ state'.events = state.events
             /\ state'.settings = state.settings]_vars

============================================================================
